---- MODULE Spec2Model ----
(***************************************************************************)
(* The outline tree of gorgeous (pkg/org): MetaNodeTree positions, the     *)
(* Document.AddHeading and MetaNodeTree.InsertSubtree operations and the   *)
(* tree queries (WalkBackToLevel, InheritTags, GetNodesByProperties), and  *)
(* the repeat-shift engine of RepeatStamp.                                 *)
(*                                                                         *)
(* Go pointers are modelled as indices into two heaps: `tree` holds the    *)
(* MetaNodeTree structs and `node` the Node structs.  A struct copy        *)
(* (`x := *mnt`) allocates a new MetaNodeTree that shares the Node.  A     *)
(* Subtree slice is a sequence of positions.  A nil dereference or an      *)
(* explicit panic ends the run with status "panic".  `stamp` is the value  *)
(* a caller holds (a RepeatStamp, a TimestampRange, a pair of properties,  *)
(* todo settings), Nil while the run has built none.                       *)
(***************************************************************************)
EXTENDS Integers, Sequences, FiniteSets, TLC

VARIABLES tree, node, old, call, headings, splices, stamp

vars == <<tree, node, old, call, headings, splices, stamp>>

\* ---------------------------------------------------------------- bounds
\* Heading levels handed to AddHeading range over -1..MaxLevel.
MaxLevel == 3
\* Number of headings the caller creates in a run (by AddHeading, or as the
\* nodes of a subtree handed to InsertSubtree).
MaxHeadings == 4
\* Number of InsertSubtree calls in a run.
MaxSplices == 1
\* Number of tagged headings in a run that queries tag inheritance.
MaxTagged == 3

\* ------------------------------------------------------------- the heaps
\* The nil pointer.
Nil == 0
\* The position NewMetaNodeTree returns: the document's root, d.NodeTree.
Root == 1

\* A Node: Heading = FALSE is the nil heading of the zero-th node.
NewNode(lvl, tags) ==
  [Heading |-> TRUE, Level |-> lvl, Tags |-> tags, Properties |-> << >>, Tree |-> Nil]

\* NewMetaNodeTree: a root position whose Node has no heading and points back.
NewMetaNodeTree ==
  [tree |-> << [Parent |-> Nil, Node |-> 1, Subtree |-> << >>] >>,
   node |-> << [Heading |-> FALSE, Level |-> 0, Tags |-> << >>, Properties |-> << >>,
                Tree |-> Root] >>]

\* Level() of a position that panics (nil heading on a non-zeroth node).
PanicLevel == -100

\* Node.Level / MetaNodeTree.Level.
Level(tr, nd, mnt) ==
  LET n == nd[tr[mnt].Node] IN
  IF ~n.Heading
    THEN IF tr[n.Tree].Parent = Nil THEN 0 ELSE PanicLevel
    ELSE n.Level

\* MetaNodeTree.GetNodeTags.
GetNodeTags(tr, nd, mnt) ==
  IF ~nd[tr[mnt].Node].Heading THEN << >> ELSE nd[tr[mnt].Node].Tags

Range(s) == {s[i] : i \in DOMAIN s}

RECURSIVE Concat(_)
Concat(ss) == IF ss = << >> THEN << >> ELSE Head(ss) \o Concat(Tail(ss))

\* MetaNodeTree.GetEndNodes: the leaves below mnt, or mnt itself.
RECURSIVE GetEndNodes(_, _)
GetEndNodes(tr, mnt) ==
  LET out == Concat([i \in 1..Len(tr[mnt].Subtree) |->
                 LET v == tr[mnt].Subtree[i] IN
                 IF Len(tr[v].Subtree) = 0 THEN <<v>> ELSE GetEndNodes(tr, v)])
  IN IF Len(out) = 0 THEN <<mnt>> ELSE out

\* MetaNodeTree.AddNode: a new position for node n, appended to mnt.Subtree.
AddNode(tr, mnt, n) ==
  LET new == Len(tr) + 1 IN
  [Append(tr, [Parent |-> mnt, Node |-> n, Subtree |-> << >>])
     EXCEPT ![mnt].Subtree = Append(@, new)]

\* A variant of AddSubtree that puts st first.
AddSubtreeFirst(tr, mnt, st) == [tr EXCEPT ![mnt].Subtree = <<st>> \o @]

\* MetaNodeTree.AddSubtree: st appended to mnt.Subtree (st.Parent untouched).
AddSubtree(tr, mnt, st) == [tr EXCEPT ![mnt].Subtree = Append(@, st)]

\* MetaNodeTree.WalkBackToLevel: the loop variable lvl is read once, from the
\* parent, and never advanced, so the loop inspects the parent alone.
WalkBackToLevel(tr, nd, mnt, targetLvl) ==
  IF Level(tr, nd, mnt) <= targetLvl THEN mnt
  ELSE IF tr[mnt].Parent = Nil THEN Nil
  ELSE IF Level(tr, nd, tr[mnt].Parent) <= targetLvl THEN tr[mnt].Parent
  ELSE Nil

\* ----------------------------------------------------------- InheritTags
\* A variant of Kept that drops the tags of exclude whatever all is.
KeptNoExclude(v, include, exclude, all) ==
  ~(v \notin include /\ ~all) /\ v \notin exclude

\* The filter both revisions of InheritTags apply to a parent's tag v:
\* `pass` (skip the tag) is set when v is not in include and all is false,
\* or when v is in exclude and all is true.
Kept(v, include, exclude, all) ==
  ~((v \notin include /\ ~all) \/ (v \in exclude /\ all))

\* MetaNodeTree.InheritTags (nodetree.go): the keys of the `coalesce` map,
\* that is the tags of upstreamTags; the result lists them in map order.
\* include and exclude are read through util.In and len alone: sets.
RECURSIVE InheritTags(_, _, _, _, _, _)
InheritTags(tr, nd, mnt, include, exclude, all) ==
  IF include = {} /\ ~all THEN {}
  ELSE
    LET parent == tr[mnt].Parent
        upstreamTags == IF Level(tr, nd, parent) # 0
                          THEN InheritTags(tr, nd, parent, include, exclude, all)
                          ELSE {}
    IN upstreamTags
         \cup {v \in Range(GetNodeTags(tr, nd, parent)) : Kept(v, include, exclude, all)}

\* MetaNodeTree.InheritTags of the earlier revision (document.go): the
\* parent's filtered tags are replaced by the recursive result whenever the
\* parent is not at level 0; the list is returned as it is.
RECURSIVE InheritTagsEarlier(_, _, _, _, _, _)
InheritTagsEarlier(tr, nd, mnt, include, exclude, all) ==
  IF include = {} /\ ~all THEN << >>
  ELSE
    LET parent == tr[mnt].Parent
        upstreamTags == SelectSeq(GetNodeTags(tr, nd, parent),
                                  LAMBDA v : Kept(v, include, exclude, all))
    IN IF Level(tr, nd, parent) # 0
         THEN InheritTagsEarlier(tr, nd, parent, include, exclude, all)
         ELSE upstreamTags

\* The orders in which ranging over a Go map can list the keys S.
MapOrders(S) ==
  {f \in [1..Cardinality(S) -> S] : \A i, j \in 1..Cardinality(S) : f[i] = f[j] => i = j}

\* ------------------------------------------------------------ AddHeading
\* A variant of PlaceHeading that skips the level comparison and always
\* attaches the new node to the last end node.
PlaceUnderLast(tr, nd, n, lvl) ==
  LET endNodes == GetEndNodes(tr, Root) IN
  [tree |-> AddNode(tr, endNodes[Len(endNodes)], n), node |-> nd, status |-> "ok"]

\* The placement part of Document.AddHeading: node n, of level lvl, is
\* already allocated in nd.
PlaceHeading(tr, nd, n, lvl) ==
  IF lvl = 1
    THEN [tree |-> AddNode(tr, Root, n), node |-> nd, status |-> "ok"]
  ELSE
    LET endNodes == GetEndNodes(tr, Root)
        lastNode == endNodes[Len(endNodes)]
        tr1 == IF Level(tr, nd, lastNode) < lvl
                 THEN AddNode(tr, lastNode, n) ELSE tr
    IN
    IF Level(tr1, nd, lastNode) >= lvl
      THEN LET parent == WalkBackToLevel(tr1, nd, lastNode, lvl - 1) IN
           IF parent = Nil
             THEN [tree |-> tr1, node |-> nd, status |-> "panic"]
             ELSE [tree |-> AddNode(tr1, parent, n), node |-> nd, status |-> "ok"]
      ELSE [tree |-> tr1, node |-> nd, status |-> "ok"]

\* A variant of AddHeading that, like Document.InsertMetaNode of the list
\* revision, wants a heading of a lower level for every level but 1 and
\* returns UnknownInsertError when the document has none.
AddHeadingWantsHeading(tr, nd, lvl, tags) ==
  IF lvl < 0
    THEN [tree |-> tr, node |-> nd, status |-> "InvalidHeadingLevelError"]
  ELSE IF lvl # 1 /\ \A p \in 2..Len(tr) : Level(tr, nd, p) >= lvl
    THEN [tree |-> tr, node |-> nd, status |-> "UnknownInsertError"]
  ELSE PlaceHeading(tr, Append(nd, NewNode(lvl, tags)), Len(nd) + 1, lvl)

\* Document.AddHeading on the heaps: the new heaps and the outcome.
AddHeading(tr, nd, lvl, tags) ==
  IF lvl < 0
    THEN [tree |-> tr, node |-> nd, status |-> "InvalidHeadingLevelError"]
    ELSE PlaceHeading(tr, Append(nd, NewNode(lvl, tags)), Len(nd) + 1, lvl)

\* --------------------------------------------------------- InsertSubtree
\* The positions below and including mnt, in pre-order.
RECURSIVE Positions(_, _)
Positions(tr, mnt) ==
  <<mnt>> \o Concat([i \in 1..Len(tr[mnt].Subtree) |-> Positions(tr, tr[mnt].Subtree[i])])

\* MetaNodeTree.Flatten: a fresh copy of every position below and including
\* mnt, in pre-order; a copy shares the Node and has no parent and no children.
Flatten(tr, mnt) ==
  LET src == Positions(tr, mnt) IN
  [tree |-> tr \o [i \in 1..Len(src) |->
                     [Parent |-> Nil, Node |-> tr[src[i]].Node, Subtree |-> << >>]],
   list |-> [i \in 1..Len(src) |-> Len(tr) + i]]

\* The loop of buildTreesFromList from element i on; `last` stays l[1].
RECURSIVE buildLoop(_, _, _, _, _, _)
buildLoop(tr, nd, l, i, root, trees) ==
  IF i > Len(l) THEN [ok |-> TRUE, tree |-> tr, node |-> nd, trees |-> trees]
  ELSE
    LET t == l[i]
        last == l[1]
        nd1 == [nd EXCEPT ![tr[t].Node].Tree = t]
    IN
    IF Level(tr, nd1, t) <= Level(tr, nd1, root)
      THEN buildLoop(tr, nd1, l, i + 1, t, Append(trees, t))
    ELSE IF Level(tr, nd1, t) = Level(tr, nd1, last)
      THEN LET tr1 == [tr EXCEPT ![t].Parent = tr[last].Parent] IN
           IF tr[last].Parent = Nil
             THEN [ok |-> FALSE, tree |-> tr1, node |-> nd1, trees |-> trees]
             ELSE buildLoop(AddSubtree(tr1, tr[last].Parent, t), nd1, l, i + 1, root, trees)
    ELSE IF Level(tr, nd1, t) < Level(tr, nd1, last)
      THEN LET p == WalkBackToLevel(tr, nd1, last, Level(tr, nd1, t) - 1) IN
           IF p # Nil
             THEN buildLoop(AddSubtree([tr EXCEPT ![t].Parent = p], p, t),
                            nd1, l, i + 1, root, trees)
             ELSE [ok |-> FALSE, tree |-> tr, node |-> nd1, trees |-> trees]
    ELSE buildLoop(tr, nd1, l, i + 1, root, trees)

\* buildTreesFromList: the positions of l that start a tree.
buildTreesFromList(tr, nd, l) ==
  IF Len(l) = 0 THEN [ok |-> TRUE, tree |-> tr, node |-> nd, trees |-> << >>]
  ELSE buildLoop(tr, nd, l, 1, l[1], << >>)

\* The second loop of InsertSubtree, from subtree i on.
RECURSIVE placeLoop(_, _, _, _, _, _)
placeLoop(tr, nd, mnt, retree, subtrees, i) ==
  IF i > Len(subtrees) THEN [ok |-> TRUE, tree |-> tr]
  ELSE
    LET st == subtrees[i]
        parent == WalkBackToLevel(tr, nd, mnt, Level(tr, nd, st) - 1)
        up == Level(tr, nd, st) <= Level(tr, nd, retree)
        tr1 == IF up THEN [tr EXCEPT ![st].Parent = parent] ELSE tr
    IN
    IF up /\ parent = Nil THEN [ok |-> FALSE, tree |-> tr1]
    ELSE
      LET tr2 == IF up THEN AddSubtree(tr1, parent, st) ELSE tr1
          tr3 == IF Level(tr2, nd, st) > Level(tr2, nd, retree)
                   THEN AddSubtree([tr2 EXCEPT ![st].Parent = retree], retree, st)
                   ELSE tr2
      IN placeLoop(tr3, nd, mnt, retree, subtrees, i + 1)

\* The first loop of InsertSubtree: the flattened children of mnt appended.
RECURSIVE flattenChildren(_, _, _, _)
flattenChildren(tr, sub, i, list) ==
  IF i > Len(sub) THEN [tree |-> tr, list |-> list]
  ELSE LET f == Flatten(tr, sub[i]) IN
       flattenChildren(f.tree, sub, i + 1, list \o f.list)

\* MetaNodeTree.InsertSubtree.  retree is the local copy of *mnt; the
\* positions placed under the anchor take its address as their Parent.
InsertSubtree(tr, nd, mnt, t) ==
  LET retree == Len(tr) + 1
      tr0 == Append(tr, [tr[mnt] EXCEPT !.Subtree = << >>])
      f0 == Flatten(tr0, t)
      fl == flattenChildren(f0.tree, tr[mnt].Subtree, 1, f0.list)
      b == buildTreesFromList(fl.tree, nd, fl.list)
  IN
  IF ~b.ok THEN [tree |-> b.tree, node |-> b.node, status |-> "panic"]
  ELSE
    LET p == placeLoop(b.tree, b.node, mnt, retree, b.trees, 1) IN
    IF ~p.ok THEN [tree |-> p.tree, node |-> b.node, status |-> "panic"]
    ELSE [tree |-> [p.tree EXCEPT ![mnt].Subtree = p.tree[retree].Subtree],
          node |-> b.node, status |-> "ok"]

\* The subtrees handed to InsertSubtree: a heading alone, or a heading with
\* one deeper child, given by their levels in pre-order.
SubtreeShapes ==
  {<<a>> : a \in 1..MaxLevel}
    \cup {s \in (1..MaxLevel) \X (1..MaxLevel) : s[1] < s[2]}

\* The caller's construction of such a subtree: &MetaNodeTree{Node: ...},
\* then AddNode for the child.
BuildSubtree(tr, nd, shape) ==
  LET nd1 == Append(nd, NewNode(shape[1], << >>))
      t == Len(tr) + 1
      tr1 == Append(tr, [Parent |-> Nil, Node |-> Len(nd1), Subtree |-> << >>])
  IN
  IF Len(shape) = 1 THEN [tree |-> tr1, node |-> nd1, t |-> t]
  ELSE LET nd2 == Append(nd1, NewNode(shape[2], << >>)) IN
       [tree |-> AddNode(tr1, t, Len(nd2)), node |-> nd2, t |-> t]

\* ----------------------------------------------------------------- state
Levels == -1..MaxLevel

Init ==
  /\ tree = NewMetaNodeTree.tree
  /\ node = NewMetaNodeTree.node
  /\ old = [tree |-> NewMetaNodeTree.tree, node |-> NewMetaNodeTree.node]
  /\ call = [op |-> "New", status |-> "ok"]
  /\ headings = << >>
  /\ splices = 0
  /\ stamp = Nil

Running == call.status # "panic"

\* The headings created so far (the zero-th node has none).
Created == Len(node) - 1

\* d.AddHeading(lvl, "", WithTags(tags)).
AddHeadingCall(lvl, tags) ==
  /\ Running
  /\ lvl >= 0 => Created < MaxHeadings
  /\ LET r == AddHeading(tree, node, lvl, tags) IN
     /\ tree' = r.tree
     /\ node' = r.node
     /\ call' = [op |-> "AddHeading", status |-> r.status, lvl |-> lvl,
                 n |-> Len(node) + 1]
     /\ headings' = IF lvl >= 1 THEN Append(headings, Len(node) + 1) ELSE headings
  /\ old' = [tree |-> tree, node |-> node]
  /\ UNCHANGED <<splices, stamp>>

\* anchor.InsertSubtree(t), anchor a position of the document tree and t a
\* subtree the caller has built.
InsertSubtreeCall(anchor, shape) ==
  /\ Running
  /\ Created + Len(shape) <= MaxHeadings
  /\ splices < MaxSplices
  /\ LET b == BuildSubtree(tree, node, shape)
         r == InsertSubtree(b.tree, b.node, anchor, b.t)
     IN
     /\ tree' = r.tree
     /\ node' = r.node
     /\ call' = [op |-> "InsertSubtree", status |-> r.status, anchor |-> anchor,
                 t |-> b.t]
     /\ old' = [tree |-> b.tree, node |-> b.node]
  /\ splices' = splices + 1
  /\ UNCHANGED <<headings, stamp>>

Next ==
  \/ \E lvl \in Levels : AddHeadingCall(lvl, << >>)
  \/ \E anchor \in Range(Positions(tree, Root)), shape \in SubtreeShapes :
        InsertSubtreeCall(anchor, shape)

Spec == Init /\ [][Next]_vars

\* p.WalkBackToLevel(target) on a position of the document tree.
WalkBackToLevelCall(p, target) ==
  /\ Running
  /\ call' = [op |-> "WalkBackToLevel", status |-> "ok", p |-> p,
              target |-> target, ret |-> WalkBackToLevel(tree, node, p, target)]
  /\ old' = [tree |-> tree, node |-> node]
  /\ UNCHANGED <<tree, node, headings, splices, stamp>>

\* Documents built by AddHeading with valid levels alone, and walked.
NextWalk ==
  \/ \E lvl \in 1..MaxLevel : AddHeadingCall(lvl, << >>)
  \/ \E p \in Range(Positions(tree, Root)), target \in Levels :
        WalkBackToLevelCall(p, target)

SpecWalk == Init /\ [][NextWalk]_vars

\* The tags of the model and the tag lists WithTags is given.
Tags == {"t1", "t2"}

TagLists == {<<"t1">>, <<"t1", "t2">>}

\* A query leaves the document as it is, so a run that builds a tagged
\* document makes its one query last: Building holds until then.
Building == call.op \in {"New", "AddHeading"}

\* d.AddHeading(lvl, "", WithTags(tags)) while building a tagged document.
AddTaggedHeadingCall(lvl, tags) ==
  /\ Created < MaxTagged
  /\ Building
  /\ AddHeadingCall(lvl, tags)

\* p.InheritTags(include, exclude, all) on a non-root position; the result
\* comes in one of the orders the map iteration can give.
InheritTagsCall(p, include, exclude, all) ==
  /\ Running /\ Building
  /\ \E out \in MapOrders(InheritTags(tree, node, p, include, exclude, all)) :
       call' = [op |-> "InheritTags", status |-> "ok", p |-> p, include |-> include,
                exclude |-> exclude, all |-> all, ret |-> out]
  /\ old' = [tree |-> tree, node |-> node]
  /\ UNCHANGED <<tree, node, headings, splices, stamp>>

\* The same call on the earlier revision of InheritTags.
InheritTagsEarlierCall(p, include, exclude, all) ==
  /\ Running /\ Building
  /\ call' = [op |-> "InheritTagsEarlier", status |-> "ok", p |-> p,
              include |-> include, exclude |-> exclude, all |-> all,
              ret |-> InheritTagsEarlier(tree, node, p, include, exclude, all)]
  /\ old' = [tree |-> tree, node |-> node]
  /\ UNCHANGED <<tree, node, headings, splices, stamp>>

\* A tagged document is built by AddHeading, then queried.
NextTags ==
  \/ \E lvl \in 1..MaxLevel, tags \in TagLists : AddTaggedHeadingCall(lvl, tags)
  \/ \E p \in Range(Positions(tree, Root)) \ {Root},
         include \in SUBSET Tags, exclude \in SUBSET Tags, all \in BOOLEAN :
        InheritTagsCall(p, include, exclude, all)

SpecTags == Init /\ [][NextTags]_vars

\* The same documents, queried with the earlier revision.
NextTagsEarlier ==
  \/ \E lvl \in 1..MaxLevel, tags \in TagLists : AddTaggedHeadingCall(lvl, tags)
  \/ \E p \in Range(Positions(tree, Root)) \ {Root},
         include \in SUBSET Tags, exclude \in SUBSET Tags, all \in BOOLEAN :
        InheritTagsEarlierCall(p, include, exclude, all)

SpecTagsEarlier == Init /\ [][NextTagsEarlier]_vars

\* ------------------------------------------------- vocabulary of the claims
\* The positions of the document tree, and their nodes in pre-order.
Reach == Range(Positions(tree, Root))

NodesOf(tr, ps) == [i \in 1..Len(ps) |-> tr[ps[i]].Node]

\* The first position on the chain p, p.Parent, ... whose level is at most
\* target, Nil when the chain ends without one.
RECURSIVE ChainFirst(_, _, _, _)
ChainFirst(tr, nd, p, target) ==
  IF p = Nil THEN Nil
  ELSE IF Level(tr, nd, p) <= target THEN p
  ELSE ChainFirst(tr, nd, tr[p].Parent, target)

\* A run that has only called AddHeading so far: positions are allocated in
\* call order, so the most recently inserted position is the newest one.
OnlyAddHeading == splices = 0

\* C1: after calls that return normally, every non-root position of the tree
\* sits deeper than the position that lists it as a child and deeper than the
\* position its Parent link names; a gap of more than one level is allowed.
C1_LevelInvariant ==
  Running =>
    \A p \in Reach :
      /\ \A i \in 1..Len(tree[p].Subtree) :
           Level(tree, node, tree[p].Subtree[i]) > Level(tree, node, p)
      /\ p # Root =>
           /\ tree[p].Parent # Nil
           /\ Level(tree, node, p) > Level(tree, node, tree[p].Parent)

\* C1 witness: a tree built by AddHeading and a successful InsertSubtree that
\* holds a position more than one level deeper than its parent.
C1_Witness ==
  /\ call.op = "InsertSubtree" /\ call.status = "ok"
  /\ Len(headings) >= 2
  /\ \E p \in Reach \ {Root} :
       /\ tree[p].Parent # Root
       /\ Level(tree, node, p) > Level(tree, node, tree[p].Parent) + 1

\* C2 (as claimed): AddHeading(L) with L >= 1 on a tree built by AddHeading
\* succeeds and appends the new node to the children of the nearest position,
\* from the most recently inserted one upwards, whose level is below L.
C2_Claim ==
  (call.op = "AddHeading" /\ call.lvl >= 1 /\ OnlyAddHeading) =>
    /\ call.status = "ok"
    /\ LET parent == ChainFirst(old.tree, old.node, Len(old.tree), call.lvl - 1)
           new == Len(tree)
       IN /\ new = Len(old.tree) + 1
          /\ tree[new] = [Parent |-> parent, Node |-> call.n, Subtree |-> << >>]
          /\ tree[parent].Subtree = Append(old.tree[parent].Subtree, new)

\* C3 (as claimed): after any sequence of AddHeading calls with levels >= 1
\* the pre-order traversal of the non-root positions lists the headings of
\* the calls, in call order.
C3_Claim ==
  OnlyAddHeading => NodesOf(tree, Tail(Positions(tree, Root))) = headings

\* C4 (as claimed): AddHeading with a level below 1 returns the
\* invalid-heading-level error and leaves the tree as it was.
C4_Claim ==
  (call.op = "AddHeading" /\ call.lvl < 1) =>
    /\ call.status = "InvalidHeadingLevelError"
    /\ tree = old.tree

\* The document holds no heading of a level below lvl.
NoHeadingBelow(tr, nd, lvl) ==
  \A p \in Range(Positions(tr, Root)) \ {Root} : Level(tr, nd, p) >= lvl

\* C5 (as claimed): a heading of level >= 2 inserted while no heading of a
\* lower level exists makes AddHeading return UnknownInsertError, tree unchanged.
C5_Claim ==
  (call.op = "AddHeading" /\ call.lvl >= 2
     /\ NoHeadingBelow(old.tree, old.node, call.lvl)) =>
    /\ call.status = "UnknownInsertError"
    /\ tree = old.tree

\* C5 (amended): AddHeading never returns UnknownInsertError; a heading of
\* level >= 2 inserted into a document without headings succeeds and becomes
\* the only child of the root.
C5_Amended ==
  call.op = "AddHeading" =>
    /\ call.status # "UnknownInsertError"
    /\ (call.lvl >= 2 /\ old.tree[Root].Subtree = << >>) =>
         /\ call.status = "ok"
         /\ tree[Root].Subtree = <<Len(tree)>>
         /\ tree[Len(tree)] = [Parent |-> Root, Node |-> call.n, Subtree |-> << >>]

\* C5 witness: a level-3 heading was inserted into the empty document.
C5_Witness ==
  /\ call.op = "AddHeading" /\ call.lvl = 3
  /\ old.tree[Root].Subtree = << >>
  /\ call.status = "ok"

\* The case of C7: the subtree is a childless heading placed below the anchor,
\* and the anchor's children are childless headings of that same level.
C7_Case ==
  /\ call.op = "InsertSubtree"
  /\ old.tree[call.t].Subtree = << >>
  /\ Level(old.tree, old.node, call.t) > Level(old.tree, old.node, call.anchor)
  /\ old.tree[call.anchor].Subtree # << >>
  /\ \A c \in Range(old.tree[call.anchor].Subtree) :
       /\ old.tree[c].Subtree = << >>
       /\ Level(old.tree, old.node, c) = Level(old.tree, old.node, call.t)

\* C7: in that case the anchor's children are the spliced heading followed
\* by the former children in their order, all of them still childless.
C7_SpliceSiblings ==
  C7_Case =>
    /\ call.status = "ok"
    /\ NodesOf(tree, tree[call.anchor].Subtree)
         = <<old.tree[call.t].Node>>
             \o NodesOf(old.tree, old.tree[call.anchor].Subtree)
    /\ \A c \in Range(tree[call.anchor].Subtree) : tree[c].Subtree = << >>

\* C6 (as claimed): p.WalkBackToLevel(target) is the first position of the
\* chain p, p.Parent, ... whose level is at most target, and nil only when
\* the chain holds none.
C6_Claim ==
  call.op = "WalkBackToLevel" =>
    call.ret = ChainFirst(tree, node, call.p, call.target)

\* C7 witness: the spec's case, X(2) spliced after A(1) with children B(2), C(2).
C7_Witness ==
  /\ C7_Case
  /\ call.anchor # Root
  /\ Level(old.tree, old.node, call.anchor) = 1
  /\ Level(old.tree, old.node, call.t) = 2
  /\ Len(old.tree[call.anchor].Subtree) = 2

\* The outline nesting of a flat list of levels: the parent of element i is
\* the nearest earlier element of a lower level (0: none).
OutlineParent(lv, i) ==
  LET below == {j \in 1..(i - 1) : lv[j] < lv[i]} IN
  IF below = {} THEN 0 ELSE CHOOSE j \in below : \A k \in below : k <= j

\* C8 (as claimed): after anchor.InsertSubtree(t), t deeper than the anchor,
\* the anchor's subtree holds the anchor, t's nodes and the anchor's former
\* descendants in that pre-order, each under the parent the outline nesting
\* of that flat list gives it.
C8_Claim ==
  (call.op = "InsertSubtree" /\ call.status = "ok"
     /\ Level(old.tree, old.node, call.t) > Level(old.tree, old.node, call.anchor)) =>
    LET flat == NodesOf(old.tree, <<call.anchor>> \o Positions(old.tree, call.t)
                                    \o Tail(Positions(old.tree, call.anchor)))
        lv == [i \in 1..Len(flat) |-> IF old.node[flat[i]].Heading
                                         THEN old.node[flat[i]].Level ELSE 0]
        now == Positions(tree, call.anchor)
    IN /\ NodesOf(tree, now) = flat
       /\ \A i \in 2..Len(now) :
            tree[tree[now[i]].Parent].Node = flat[OutlineParent(lv, i)]

\* The positions above p on its Parent chain.
RECURSIVE Ancestors(_, _)
Ancestors(tr, p) ==
  IF tr[p].Parent = Nil THEN {} ELSE {tr[p].Parent} \cup Ancestors(tr, tr[p].Parent)

\* The tags declared on proper ancestors of p that the arguments let through:
\* those in include when all is false, those not in exclude when all is true.
InheritedTags(tr, nd, p, include, exclude, all) ==
  {v \in UNION {Range(nd[tr[a].Node].Tags) : a \in Ancestors(tr, p)} :
     IF all THEN v \notin exclude ELSE v \in include}

\* C9: InheritTags returns, each once, exactly the tags declared on proper
\* ancestors of p that pass the filter (include when all is false, exclude
\* when all is true); nothing when include is empty and all is false.
C9_InheritTags ==
  call.op = "InheritTags" =>
    /\ \A i, j \in 1..Len(call.ret) : call.ret[i] = call.ret[j] => i = j
    /\ Range(call.ret)
         = InheritedTags(tree, node, call.p, call.include, call.exclude, call.all)
    /\ (call.include = {} /\ ~call.all) => call.ret = << >>

\* C9 witness: a position two headings deep inherits a tag its parent and
\* its grandparent both declare, and does not return a tag of its own.
C9_Witness ==
  /\ call.op = "InheritTags" /\ ~call.all /\ call.include = Tags
  /\ tree[call.p].Parent # Root /\ tree[tree[call.p].Parent].Parent # Root
  /\ node[tree[tree[call.p].Parent].Node].Tags = <<"t1">>
  /\ node[tree[tree[tree[call.p].Parent].Parent].Node].Tags = <<"t1">>
  /\ node[tree[call.p].Node].Tags = <<"t1", "t2">>
  /\ call.ret = <<"t1">>

\* C10 (as claimed): the earlier revision of InheritTags returns the same set
\* of tags as the current one, for every position and all arguments.
C10_Claim ==
  call.op = "InheritTagsEarlier" =>
    Range(call.ret)
      = InheritTags(tree, node, call.p, call.include, call.exclude, call.all)

\* ------------------------------------------------- GetNodesByProperties
\* Number of headings in a run that searches by properties.
MaxPropHeadings == 2

\* Property keys and values of the model.
Keys == {"k1", "k2"}

Values == {"v1", "v2"}

\* A Property of a node.
Property(k, v) == [Key |-> k, Value |-> v]

\* The Properties slices a caller assigns to a node.
PropertyLists ==
  {<<Property("k1", "v1")>>, <<Property("k1", "v2")>>,
   <<Property("k1", "v1"), Property("k2", "v2")>>}

\* The propMap arguments: a map from some keys to a list of values.
PropMaps ==
  UNION {[K -> {<<"v1">>, <<"v2">>, <<"v1", "v2">>}] : K \in (SUBSET Keys) \ {{}}}

\* mnt.GetNodesByProperties(propMap): the node, appended once for each of its
\* properties that is in propMap, then the results of the children in order.
RECURSIVE GetNodesByProperties(_, _, _, _)
GetNodesByProperties(tr, nd, mnt, propMap) ==
  LET this == tr[mnt].Node
      props == nd[this].Properties
      nodes == Concat([i \in 1..Len(props) |->
                 IF /\ props[i].Key \in DOMAIN propMap
                    /\ props[i].Value \in Range(propMap[props[i].Key])
                 THEN <<this>> ELSE << >>])
  IN nodes \o Concat([i \in 1..Len(tr[mnt].Subtree) |->
                 GetNodesByProperties(tr, nd, tr[mnt].Subtree[i], propMap)])

\* A run that searches by properties builds its document first.
BuildingProps == call.op \in {"New", "AddHeading", "SetProperties"}

\* d.AddHeading(lvl, "") while building a document with properties.
AddPropHeadingCall(lvl) ==
  /\ Created < MaxPropHeadings
  /\ BuildingProps
  /\ AddHeadingCall(lvl, << >>)

\* The caller assigns node.Properties of the heading AddHeading just added.
SetPropertiesCall(props) ==
  /\ call.op = "AddHeading" /\ call.status = "ok"
  /\ node' = [node EXCEPT ![call.n].Properties = props]
  /\ call' = [op |-> "SetProperties", status |-> "ok", n |-> call.n]
  /\ old' = [tree |-> tree, node |-> node]
  /\ UNCHANGED <<tree, headings, splices, stamp>>

\* p.GetNodesByProperties(propMap) on a position of the document tree.
GetNodesByPropertiesCall(p, propMap) ==
  /\ Running /\ BuildingProps
  /\ call' = [op |-> "GetNodesByProperties", status |-> "ok", p |-> p,
              propMap |-> propMap,
              ret |-> GetNodesByProperties(tree, node, p, propMap)]
  /\ old' = [tree |-> tree, node |-> node]
  /\ UNCHANGED <<tree, node, headings, splices, stamp>>

NextProps ==
  \/ \E lvl \in 1..MaxLevel : AddPropHeadingCall(lvl)
  \/ \E props \in PropertyLists : SetPropertiesCall(props)
  \/ \E p \in Range(Positions(tree, Root)), propMap \in PropMaps :
        GetNodesByPropertiesCall(p, propMap)

SpecProps == Init /\ [][NextProps]_vars

\* A node owns a property whose key is a key of propMap and whose value is in
\* the list of that key.
Matches(n, propMap) ==
  \E i \in 1..Len(node[n].Properties) :
     /\ node[n].Properties[i].Key \in DOMAIN propMap
     /\ node[n].Properties[i].Value \in Range(propMap[node[n].Properties[i].Key])

\* C11: GetNodesByProperties(propMap) returns the pre-order list of the nodes
\* of the subtree that own a property matching propMap: each such node is
\* listed, once, and no other node is.
C11_Claim ==
  call.op = "GetNodesByProperties" =>
     call.ret = SelectSeq(NodesOf(tree, Positions(tree, call.p)),
                          LAMBDA n : Matches(n, call.propMap))

\* ---------------------------------------------------------- time.Time
\* Op applied to the value of e: a local variable of the code, assigned once
\* and read many times.
Bind(e, Op(_)) == CHOOSE r \in {Op(x) : x \in {e}} : TRUE

\* An instant is a number of hours since 0001-01-01 00:00 of the stamp's
\* Location, which is taken without daylight saving; the minutes of a clock
\* are carried unchanged by every operation below and are left out.
\* The zero time.Time, for which IsZero() holds.
ZeroTime == 0

IsLeap(y) == (y % 4 = 0 /\ y % 100 # 0) \/ y % 400 = 0

DaysIn(y, m) ==
  IF m = 2 THEN (IF IsLeap(y) THEN 29 ELSE 28)
  ELSE IF m \in {4, 6, 9, 11} THEN 30 ELSE 31

DaysBeforeYear(y) == 365 * (y - 1) + (y - 1) \div 4 - (y - 1) \div 100 + (y - 1) \div 400

\* The days of a year before month m.
DaysBeforeMonth(y, m) ==
  <<0, 31, 59, 90, 120, 151, 181, 212, 243, 273, 304, 334>>[m]
    + (IF m > 2 /\ IsLeap(y) THEN 1 ELSE 0)

\* time.Date(y, m, d, h, ...): months and days out of range are normalised.
Date(y, m, d, h) ==
  LET y1 == y + (m - 1) \div 12
      m1 == ((m - 1) % 12) + 1
  IN (DaysBeforeYear(y1) + DaysBeforeMonth(y1, m1) + d - 1) * 24 + h

RECURSIVE YearFrom(_, _)
YearFrom(days, y) == IF DaysBeforeYear(y + 1) <= days THEN YearFrom(days, y + 1) ELSE y

\* The year, month and day of the day that is `days` days after 0001-01-01.
CivilOf(days) ==
  LET y == YearFrom(days, days \div 366 + 1)
      doy == days - DaysBeforeYear(y)
      m == CHOOSE c \in 1..12 :
             DaysBeforeMonth(y, c) <= doy /\ doy < DaysBeforeMonth(y, c) + DaysIn(y, c)
  IN <<y, m, doy - DaysBeforeMonth(y, m) + 1>>

\* CivilOf as a table over the days the runs can reach, from FirstDay on.
FirstDay == DaysBeforeYear(2012)

Civil == [i \in 1..(DaysBeforeYear(2040) - FirstDay) |-> CivilOf(FirstDay + i - 1)] \o << >>

\* t.Year(), t.Month(), t.Day() and the hour of t.Clock().
Year(t) == Civil[t \div 24 - FirstDay + 1][1]

Month(t) == Civil[t \div 24 - FirstDay + 1][2]

Day(t) == Civil[t \div 24 - FirstDay + 1][3]

Clock(t) == t % 24

\* t.AddDate(years, months, days).
AddDate(t, years, months, days) ==
  Date(Year(t) + years, Month(t) + months, Day(t) + days, Clock(t))

firstDayOfMonth(t) == Date(Year(t), Month(t), 1, Clock(t))

\* A variant of lastDayOfMonth that does not step back a day.
firstDayOfNextMonth(t) == AddDate(firstDayOfMonth(t), 0, 1, 0)

lastDayOfMonth(t) == AddDate(firstDayOfMonth(t), 0, 1, -1)

\* -------------------------------------------------------- RepeatStamp
\* A RepeatStamp is a record of the Timestamp fields Start, End, DateOnly and
\* IsRange, its Repeat (Kind, IntervalAmount, Interval) and its RepeatConfig
\* (ClampToEndOfMonth, ShiftByDays, FixedDate; Location is the one of the
\* instants).  A call that panics yields Panicked, one that returns nil NilStamp.
Panicked == [panic |-> TRUE]

NilStamp == [nil |-> TRUE]

\* NewRepeatStamp(start, cfg, WithEnd(end), WithRepeat(repeat), WithDateOnly()).
NewRepeatStamp(start, end, dateOnly, repeat, cfg) ==
  [Start |-> start, End |-> end, DateOnly |-> dateOnly, IsRange |-> end # ZeroTime,
   Repeat |-> repeat, RepeatConfig |-> cfg]

\* rs.shiftByHours(i).  A date-only stamp counts from 00:00 of its day; the
\* write to the receiver's Start leaves a stamp that starts at 00:00 as it is.
shiftByHours(rs, i) ==
  LET start == IF rs.DateOnly
                 THEN Date(Year(rs.Start), Month(rs.Start), Day(rs.Start), 0)
                 ELSE rs.Start
  IN [rs EXCEPT !.DateOnly = FALSE,
                !.Start = start + i,
                !.End = IF rs.End # ZeroTime THEN rs.End + i ELSE @]

shiftByDays(rs, i) ==
  [rs EXCEPT !.Start = AddDate(rs.Start, 0, 0, i),
             !.End = IF rs.End # ZeroTime THEN AddDate(rs.End, 0, 0, i) ELSE @]

shiftByWeeks(rs, i) ==
  [rs EXCEPT !.Start = AddDate(rs.Start, 0, 0, i * 7),
             !.End = IF rs.End # ZeroTime THEN AddDate(rs.End, 0, 0, i * 7) ELSE @]

shiftByYears(rs, i) ==
  [rs EXCEPT !.Start = AddDate(rs.Start, i, 0, 0),
             !.End = IF rs.End # ZeroTime THEN AddDate(rs.End, i, 0, 0) ELSE @]

\* rs.shiftByMonth(): one month step under the RepeatConfig; err is the
\* InvalidRepeatConfigError.
shiftByMonth(rs) ==
  LET cfg == rs.RepeatConfig
      onDay(t, clock) == Date(Year(t), Month(t), Day(t), Clock(clock))
  IN
  IF cfg.ShiftByDays /\ cfg.FixedDate THEN [rs |-> NilStamp, err |-> TRUE]
  ELSE
  Bind(AddDate(lastDayOfMonth(rs.Start), 0, 0, 1), LAMBDA nextMonth :
  Bind(lastDayOfMonth(nextMonth), LAMBDA monthEnd :
  IF cfg.ClampToEndOfMonth /\ ~cfg.ShiftByDays /\ ~cfg.FixedDate THEN
    [rs |-> [rs EXCEPT !.Start = monthEnd,
                       !.End = IF rs.End # ZeroTime
                                 THEN Bind(AddDate(lastDayOfMonth(rs.End), 0, 0, 1),
                                           LAMBDA nextEnd : lastDayOfMonth(nextEnd))
                                 ELSE @],
     err |-> FALSE]
  ELSE IF cfg.ClampToEndOfMonth /\ cfg.ShiftByDays THEN
    LET sm == IF Month(rs.Start) = 12 THEN 0 ELSE Month(rs.Start) IN
    Bind(AddDate(rs.Start, 0, 0, 30), LAMBDA plus30 :
    Bind(IF Month(plus30) - sm > 1 THEN monthEnd ELSE plus30, LAMBDA start :
      [rs |-> [rs EXCEPT !.Start = start,
                         !.End = IF rs.End # ZeroTime THEN onDay(start, rs.End) ELSE @],
       err |-> FALSE]))
  ELSE IF cfg.ClampToEndOfMonth THEN
    Bind(Date(Year(nextMonth), Month(nextMonth),
              IF Day(monthEnd) < Day(rs.Start) THEN Day(monthEnd) ELSE Day(rs.Start),
              Clock(rs.Start)), LAMBDA start :
      [rs |-> [rs EXCEPT !.Start = start,
                         !.End = IF rs.End # ZeroTime THEN onDay(start, rs.End) ELSE @],
       err |-> FALSE])
  ELSE IF cfg.ShiftByDays THEN
    [rs |-> [rs EXCEPT !.Start = AddDate(rs.Start, 0, 0, 30),
                       !.End = IF rs.End # ZeroTime THEN AddDate(rs.End, 0, 0, 30) ELSE @],
     err |-> FALSE]
  ELSE IF cfg.FixedDate THEN
    Bind(IF Day(monthEnd) < Day(rs.Start) THEN AddDate(nextMonth, 0, 1, 0) ELSE nextMonth,
         LAMBDA target :
      [rs |-> [rs EXCEPT !.Start = Date(Year(target), Month(target), Day(rs.Start),
                                        Clock(rs.Start)),
                         !.End = IF rs.End # ZeroTime
                                   THEN Date(Year(target), Month(target), Day(rs.Start),
                                             Clock(rs.End))
                                   ELSE @],
       err |-> FALSE])
  ELSE [rs |-> rs, err |-> FALSE]))

\* The loop of shiftByMonths: irs after the steps iter..i-1, or the error.
RECURSIVE monthsLoop(_, _, _)
monthsLoop(irs, iter, i) ==
  IF iter >= i THEN [rs |-> irs, err |-> FALSE]
  ELSE Bind(shiftByMonth(irs), LAMBDA next :
         IF next.err THEN next ELSE monthsLoop(next.rs, iter + 1, i))

shiftByMonths(rs, i) ==
  Bind(monthsLoop(rs, 0, i), LAMBDA l :
    IF l.err THEN l
    ELSE [rs |-> [rs EXCEPT !.Start = l.rs.Start,
                            !.End = IF l.rs.End # ZeroTime THEN l.rs.End ELSE @],
          err |-> FALSE])

\* rs.Shiftn(i); the error of a month shift is a panic.
Shiftn(rs, i) ==
  LET amt == rs.Repeat.IntervalAmount IN
  CASE rs.Repeat.Interval = "h" -> shiftByHours(rs, amt * i)
    [] rs.Repeat.Interval = "d" -> shiftByDays(rs, amt * i)
    [] rs.Repeat.Interval = "w" -> shiftByWeeks(rs, amt * i)
    [] rs.Repeat.Interval = "m" ->
         Bind(shiftByMonths(rs, amt * i), LAMBDA o : IF o.err THEN Panicked ELSE o.rs)
    [] rs.Repeat.Interval = "y" -> shiftByYears(rs, amt)
    [] OTHER -> NilStamp

\* The receiver after rs.shiftByHours(i): for a date-only stamp the method
\* assigns 00:00 of the day to rs.Start itself before it copies the start.
shiftByHoursReceiver(rs) ==
  IF rs.DateOnly
    THEN [rs EXCEPT !.Start = Date(Year(rs.Start), Month(rs.Start), Day(rs.Start), 0)]
    ELSE rs

\* The receiver after rs.Shiftn(i): only the hour case writes to it.
ShiftnReceiver(rs) ==
  IF rs.Repeat.Interval = "h" THEN shiftByHoursReceiver(rs) ELSE rs

\* int(a / b) of Go: the quotient truncated toward zero.
TruncDiv(a, b) ==
  IF (a >= 0) = (b > 0) THEN (IF a >= 0 THEN a ELSE -a) \div (IF b > 0 THEN b ELSE -b)
  ELSE -((IF a >= 0 THEN a ELSE -a) \div (IF b > 0 THEN b ELSE -b))

\* One activation of rs.ShiftUntil(t): either it returns the stamp rs, or it
\* ends in a call of ShiftUntil(t) on the stamp rs (recurse).
ShiftUntilBody(rs, t) ==
  Bind(Shiftn(rs, 1), LAMBDA one :
  IF one = Panicked THEN [recurse |-> FALSE, rs |-> Panicked]
  ELSE
  Bind(Shiftn(one, 1), LAMBDA next :
  LET delta == one.Start - ShiftnReceiver(rs).Start IN
  IF t < one.Start /\ t < one.End THEN [recurse |-> FALSE, rs |-> rs]
  ELSE IF t > one.Start /\ t < next.Start THEN [recurse |-> FALSE, rs |-> one]
  ELSE
  LET window == t - ShiftnReceiver(rs).Start IN
  Bind(TruncDiv(window, delta), LAMBDA shiftN :
  Bind(Shiftn(rs, shiftN), LAMBDA try :
  IF t < try.Start /\ t < try.End
    THEN [recurse |-> TRUE, rs |-> Shiftn(rs, TruncDiv(shiftN, 2))]
  ELSE
  Bind(Shiftn(try, 1), LAMBDA confirmTry :
  IF t < confirmTry.Start /\ t < confirmTry.End
    THEN [recurse |-> TRUE, rs |-> confirmTry]
    ELSE [recurse |-> FALSE, rs |-> try])))))

\* rs.ShiftUntil(t), when the call returns.
RECURSIVE ShiftUntil(_, _)
ShiftUntil(rs, t) ==
  Bind(ShiftUntilBody(rs, t), LAMBDA b :
    IF b.recurse THEN ShiftUntil(b.rs, t) ELSE b.rs)

\* A variant of RecurseAfter that calls on the receiver again.
RecurseSame(rs, after) == rs

\* The stamp on which rs.ShiftUntilAfter(t) calls itself: after.
RecurseAfter(rs, after) == after

\* ShiftUntilAfter calls itself when t is after the Start and the End of after.
UntilAfterRecurses(after, t) == t > after.Start /\ t > after.End

\* rs.ShiftUntilAfter(t), when the call returns: the result of the call it
\* makes on itself is dropped.
ShiftUntilAfter(rs, t) ==
  Bind(ShiftUntil(rs, t), LAMBDA before :
    IF before = Panicked THEN Panicked ELSE Shiftn(before, 1))

\* The receiver after rs.ShiftUntil(t) and rs.ShiftUntilAfter(t): both begin
\* with rs.Shiftn(1), and the calls they make on themselves have other
\* receivers.
ShiftUntilReceiver(rs) == ShiftnReceiver(rs)

\* The receiver after rs.Shift(t): the ".+" case shifts a copy.
ShiftReceiver(rs) ==
  CASE rs.Repeat.Kind = "+" -> ShiftnReceiver(rs)
    [] rs.Repeat.Kind = "++" -> ShiftUntilReceiver(rs)
    [] OTHER -> rs

\* rs.Shift(t), with now the value of time.Now().
Shift(rs, t, now) ==
  CASE rs.Repeat.Kind = "+" -> Shiftn(rs, rs.Repeat.IntervalAmount)
    [] rs.Repeat.Kind = "++" -> ShiftUntilAfter(rs, IF t = ZeroTime THEN now ELSE t)
    [] rs.Repeat.Kind = ".+" ->
         LET start == IF t # ZeroTime THEN t ELSE now
             duration == IF rs.IsRange THEN rs.End - rs.Start ELSE 0
         IN Shiftn([rs EXCEPT !.Start = start,
                              !.End = IF rs.End # ZeroTime THEN start + duration ELSE @], 1)
    [] OTHER -> NilStamp

\* ------------------------------------------------- the stamps of a run
\* Repeat amounts range over 1..MaxAmount.
MaxAmount == 2
\* Shiftn is called with 0..MaxShifts.
MaxShifts == 3

\* The RepeatConfig values: every combination of the three flags.
RepeatConfigs ==
  [ClampToEndOfMonth : BOOLEAN, ShiftByDays : BOOLEAN, FixedDate : BOOLEAN]

DefaultRepeatConfig ==
  [ClampToEndOfMonth |-> FALSE, ShiftByDays |-> FALSE, FixedDate |-> TRUE]

\* The Repeat directives: kind, amount and interval unit.
Repeats(kinds, units) ==
  [Kind : kinds, IntervalAmount : 1..MaxAmount, Interval : units]

\* Start instants at 08:00: the first and the last days of every month of a
\* leap year and of the year after it, and a few of them for the units whose
\* step does not depend on the month.
MonthStarts ==
  {Date(x[1], x[2], x[3], 8) :
     x \in {c \in {2020, 2021} \X (1..12) \X {1, 28, 29, 30, 31} : c[3] <= DaysIn(c[1], c[2])}}

FewStarts ==
  {Date(2021, 1, 31, 8), Date(2020, 2, 29, 8), Date(2021, 12, 1, 8), Date(2021, 12, 31, 8)}

\* The stamp NewRepeatStamp builds in one of four forms: a point in time, a
\* time range of two hours, a date without a time whose Start is at 00:00
\* ("date"), or one whose Start keeps the clock it was built with ("dated").
StampOf(start, form, repeat, cfg) ==
  CASE form = "point" -> NewRepeatStamp(start, ZeroTime, FALSE, repeat, cfg)
    [] form = "range" -> NewRepeatStamp(start, start + 2, FALSE, repeat, cfg)
    [] form = "date" -> NewRepeatStamp(start - Clock(start), ZeroTime, TRUE, repeat, cfg)
    [] form = "dated" -> NewRepeatStamp(start, ZeroTime, TRUE, repeat, cfg)

\* The fixed-date policy with end-of-month clamping.
ClampFixedDate ==
  [ClampToEndOfMonth |-> TRUE, ShiftByDays |-> FALSE, FixedDate |-> TRUE]

\* Monthly stamps under every RepeatConfig on the few starts and under
\* ClampFixedDate on all of them, and stamps of the other units.
StampsOf(forms, kinds) ==
  {StampOf(start, form, repeat, cfg) :
     start \in FewStarts, form \in forms, repeat \in Repeats(kinds, {"m"}),
     cfg \in RepeatConfigs}
  \cup
  {StampOf(start, form, repeat, ClampFixedDate) :
     start \in MonthStarts, form \in forms \ {"date"}, repeat \in Repeats(kinds, {"m"})}
  \cup
  {StampOf(start, form, repeat, DefaultRepeatConfig) :
     start \in FewStarts, form \in forms, repeat \in Repeats(kinds, {"h", "d", "w", "y"})}

\* The state after NewRepeatStamp: a caller holds a stamp of the set S.
InitStamp(S) ==
  /\ tree = NewMetaNodeTree.tree
  /\ node = NewMetaNodeTree.node
  /\ old = [tree |-> NewMetaNodeTree.tree, node |-> NewMetaNodeTree.node]
  /\ call = [op |-> "NewRepeatStamp", status |-> "ok"]
  /\ headings = << >>
  /\ splices = 0
  /\ stamp \in S

\* The stamp has not been shifted yet.
Fresh == call.op = "NewRepeatStamp"

\* A single shift moves the stamp forward (or panics).
Advances(rs) ==
  Bind(Shiftn(rs, 1), LAMBDA one : IF one = Panicked THEN TRUE ELSE one.Start > rs.Start)

\* The instant k units of u after t.
AddUnit(t, u, k) ==
  CASE u = "h" -> t + k
    [] u = "d" -> AddDate(t, 0, 0, k)
    [] u = "w" -> AddDate(t, 0, 0, 7 * k)
    [] u = "m" -> AddDate(t, 0, k, 0)
    [] u = "y" -> AddDate(t, k, 0, 0)

\* Reference times around the stamp: k units from its Start, and an hour
\* before and after that.
Targets(rs, back, ahead, slack) ==
  {AddUnit(rs.Start, rs.Repeat.Interval, k) + e : k \in (-back)..ahead, e \in slack}

\* What a call leaves to its caller.
StatusOf(ret) == IF ret = Panicked THEN "panic" ELSE "ok"

\* stamp.Shiftn(i).
ShiftnCall(i) ==
  /\ Fresh
  /\ \E ret \in {Shiftn(stamp, i)} :
     call' = [op |-> "Shiftn", status |-> StatusOf(ret), i |-> i, ret |-> ret]
  /\ stamp' = ShiftnReceiver(stamp)
  /\ UNCHANGED <<tree, node, old, headings, splices>>

\* stamp.Shift(t) while time.Now() is now.  A "++" shift of a stamp that no
\* shift moves divides by a zero delta and is left to the stamps that move.
ShiftCall(t, now) ==
  /\ Fresh
  /\ stamp.Repeat.Kind = "++" => Advances(stamp)
  /\ \E ret \in {Shift(stamp, t, now)} :
     call' = [op |-> "Shift", status |-> StatusOf(ret), t |-> t,
              ref |-> IF t = ZeroTime THEN now ELSE t, ret |-> ret]
  /\ stamp' = ShiftReceiver(stamp)
  /\ UNCHANGED <<tree, node, old, headings, splices>>

NextShift ==
  \/ \E i \in 0..MaxShifts : ShiftnCall(i)
  \/ \E t \in {ZeroTime} \cup Targets(stamp, 1, 1, {0}), now \in Targets(stamp, 1, 1, {0}) :
        ShiftCall(t, now)

SpecShift == InitStamp(StampsOf({"point", "range", "date"}, {"+", "++", ".+"})) /\ [][NextShift]_vars

\* ------------------------------------------------ claims on Shift, Shiftn
\* The call was made on a stamp of this interval unit.
Called(op, units) == call.op = op /\ stamp.Repeat.Interval \in units

\* The month steps the claims describe, on a year, month and day.
MonthAfter(ymd) ==
  IF ymd[2] = 12 THEN <<ymd[1] + 1, 1>> ELSE <<ymd[1], ymd[2] + 1>>

RECURSIVE ClampedSteps(_, _)
ClampedSteps(ymd, k) ==
  IF k <= 0 THEN ymd
  ELSE LET n == MonthAfter(ymd)
           d == IF ymd[3] < DaysIn(n[1], n[2]) THEN ymd[3] ELSE DaysIn(n[1], n[2])
       IN ClampedSteps(<<n[1], n[2], d>>, k - 1)

YMD(t) == <<Year(t), Month(t), Day(t)>>

\* C12: Shift(t) of a plain-shift stamp "+N u" returns the stamp advanced by
\* exactly N units of u, whatever t is (N month steps for the month unit).
C12_Claim ==
  (Called("Shift", {"h", "d", "w", "y"}) /\ stamp.Repeat.Kind = "+") =>
     call.ret.Start = AddUnit(stamp.Start, stamp.Repeat.Interval,
                              stamp.Repeat.IntervalAmount)

\* C14: for the hour, day, week and year units Shiftn(n) returns the stamp
\* whose Start, and End when set, is the original advanced by n * a units.
C14_Claim ==
  Called("Shiftn", {"h", "d", "w", "y"}) =>
     LET by == call.i * stamp.Repeat.IntervalAmount IN
     /\ call.ret.Start = AddUnit(stamp.Start, stamp.Repeat.Interval, by)
     /\ stamp.End # ZeroTime =>
          call.ret.End = AddUnit(stamp.End, stamp.Repeat.Interval, by)

\* C15: under ClampToEndOfMonth with FixedDate every month step moves the
\* stamp to the next month, on the smaller of its day and that month's
\* length, and the steps of a chain start from the clamped day: the day of
\* the month never grows.
C15_FixedDateDrift ==
  (Called("Shiftn", {"m"}) /\ stamp.RepeatConfig = ClampFixedDate) =>
     /\ call.status = "ok"
     /\ YMD(call.ret.Start) =
          ClampedSteps(YMD(stamp.Start), call.i * stamp.Repeat.IntervalAmount)
     /\ Clock(call.ret.Start) = Clock(stamp.Start)
     /\ Day(call.ret.Start) <= Day(stamp.Start)

\* January 31 of 2021 shifted by two months is March 28.
C15_Witness ==
  /\ Called("Shiftn", {"m"}) /\ stamp.RepeatConfig = ClampFixedDate
  /\ stamp.Start = Date(2021, 1, 31, 8)
  /\ call.i * stamp.Repeat.IntervalAmount = 2
  /\ call.ret.Start = Date(2021, 3, 28, 8)

\* C16: under ClampToEndOfMonth with ShiftByDays one month step gives
\* Start + 30 days, or the last day of the month after the Start's month
\* when Start + 30 days lies beyond that month, for every start of the year.
C16_Claim ==
  (/\ Called("Shiftn", {"m"}) /\ call.i = 1 /\ stamp.Repeat.IntervalAmount = 1
   /\ stamp.RepeatConfig.ClampToEndOfMonth /\ stamp.RepeatConfig.ShiftByDays
   /\ ~stamp.RepeatConfig.FixedDate) =>
     LET plus30 == stamp.Start + 30 * 24
         n == MonthAfter(YMD(stamp.Start))
         beyond == \/ Year(plus30) > n[1]
                   \/ Year(plus30) = n[1] /\ Month(plus30) > n[2]
     IN call.ret.Start =
          IF beyond THEN Date(n[1], n[2], DaysIn(n[1], n[2]), Clock(stamp.Start))
          ELSE plus30

\* C17: a month shift (Shift, or Shiftn of one interval or more) under a
\* RepeatConfig with ShiftByDays and FixedDate hands the caller an
\* InvalidRepeatConfigError as an error result, and no stamp.
C17_Claim ==
  (/\ call.op = "Shift" \/ (call.op = "Shiftn" /\ call.i >= 1)
   /\ stamp.Repeat.Interval = "m"
   /\ stamp.RepeatConfig.ShiftByDays /\ stamp.RepeatConfig.FixedDate) =>
     call.status = "InvalidRepeatConfigError"

\* ------------------------------------------- ShiftUntil, ShiftUntilAfter
\* Targets lie up to MaxBack units before and MaxAhead units after the Start.
MaxBack == 2

MaxAhead == 4

\* The stamps that are shifted until a target: points and ranges on the few
\* starts, of every unit and under every RepeatConfig for which a shift
\* moves the stamp.
UntilStamps ==
  {rs \in {StampOf(start, form, repeat, cfg) :
             start \in FewStarts, form \in {"point", "range"},
             repeat \in Repeats({"++"}, {"h", "d", "w", "m", "y"}),
             cfg \in RepeatConfigs} :
     /\ rs.Repeat.Interval # "m" => rs.RepeatConfig = DefaultRepeatConfig
     /\ Shiftn(rs, 1) # Panicked
     /\ Advances(rs)}

UntilTargets == Targets(stamp, MaxBack, MaxAhead, {-1, 0, 1})

\* stamp.ShiftUntil(t).
ShiftUntilCall(t) ==
  /\ Fresh
  /\ \E ret \in {ShiftUntil(stamp, t)} :
     call' = [op |-> "ShiftUntil", status |-> StatusOf(ret), t |-> t, ret |-> ret]
  /\ stamp' = ShiftUntilReceiver(stamp)
  /\ UNCHANGED <<tree, node, old, headings, splices>>

\* stamp.ShiftUntilAfter(t).
ShiftUntilAfterCall(t) ==
  /\ Fresh
  /\ \E ret \in {ShiftUntilAfter(stamp, t)} :
     call' = [op |-> "ShiftUntilAfter", status |-> StatusOf(ret), t |-> t, ret |-> ret]
  /\ stamp' = ShiftUntilReceiver(stamp)
  /\ UNCHANGED <<tree, node, old, headings, splices>>

NextUntil ==
  \/ \E t \in UntilTargets : ShiftUntilCall(t)
  \/ \E t \in UntilTargets : ShiftUntilAfterCall(t)
  \/ \E t \in UntilTargets : ShiftCall(t, t)

SpecUntil == InitStamp(UntilStamps) /\ [][NextUntil]_vars

\* The stamp after k single shifts.
RECURSIVE Occurrence(_, _)
Occurrence(rs, k) == IF k <= 0 THEN rs ELSE Occurrence(Shiftn(rs, 1), k - 1)

\* The k-th occurrence of the stamp for the units of a fixed length.
Advanced(k) ==
  AddUnit(stamp.Start, stamp.Repeat.Interval, k * stamp.Repeat.IntervalAmount)

\* C13: Shift(t) of a "++" stamp of the hour, day or week unit returns the
\* stamp advanced by k whole intervals, k the smallest number from 1 on for
\* which the shifted Start is strictly after t, whether t is before or after
\* the Start.
C13_Claim ==
  (Called("Shift", {"h", "d", "w"}) /\ stamp.Repeat.Kind = "++") =>
     \E k \in 1..(MaxAhead + 2) :
        /\ Advanced(k) > call.ref
        /\ k > 1 => Advanced(k - 1) <= call.ref
        /\ call.ret.Start = Advanced(k)

\* C18: for a target t not before the Start, ShiftUntil(t) returns the stamp
\* advanced by some k >= 0 whole intervals, with a Start <= t, while the
\* occurrence after it starts strictly after t.
C18_Claim ==
  (call.op = "ShiftUntil" /\ call.t >= stamp.Start) =>
     /\ \E k \in 0..(MaxAhead + 2) : call.ret = Occurrence(stamp, k)
     /\ call.ret.Start <= call.t
     /\ Shiftn(call.ret, 1).Start > call.t

\* C19: the stamp ShiftUntilAfter(t) returns starts strictly after t.
C19_Claim ==
  call.op = "ShiftUntilAfter" => call.ret.Start > call.t

\* ------------------------------- the recursion of ShiftUntil(After), by steps
\* The calls a ShiftUntil or ShiftUntilAfter makes on itself are followed one
\* at a time, up to MaxDepth of them on the stack.
MaxDepth == 8

\* A running call: rs is the receiver of the current ShiftUntil activation,
\* recv the receiver of the current ShiftUntilAfter activation, outer the
\* number of ShiftUntilAfter calls below it on the stack, depth that number
\* plus the ShiftUntil calls the current ShiftUntil has made on itself, and
\* first the value the first ShiftUntilAfter activation returns, once known.
BeginUntil(op, t) ==
  /\ Fresh
  /\ call' = [op |-> op, status |-> "running", t |-> t, rs |-> stamp, recv |-> stamp,
              outer |-> 0, depth |-> 0, first |-> NilStamp]
  /\ UNCHANGED <<tree, node, old, headings, splices, stamp>>

\* What the current activation does next: it calls itself on a stamp, or the
\* whole call returns.
Activation(c) ==
  Bind(ShiftUntilBody(c.rs, c.t), LAMBDA b :
  IF b.recurse
    THEN [recurse |-> TRUE, rs |-> b.rs, recv |-> c.recv, outer |-> c.outer,
          depth |-> c.depth + 1, first |-> c.first]
  ELSE IF c.op = "ShiftUntil" THEN [recurse |-> FALSE, ret |-> b.rs]
  ELSE
    Bind(Shiftn(b.rs, 1), LAMBDA after :
    LET first == IF c.first = NilStamp THEN after ELSE c.first
        on == RecurseAfter(c.recv, after)
    IN IF UntilAfterRecurses(after, c.t)
         THEN [recurse |-> TRUE, rs |-> on, recv |-> on, outer |-> c.outer + 1,
               depth |-> c.outer + 1, first |-> first]
         ELSE [recurse |-> FALSE, ret |-> first]))

\* The running call calls itself.
RecurseStep ==
  /\ call.status = "running"
  /\ call.depth < MaxDepth
  /\ \E a \in {Activation(call)} :
     /\ a.recurse
     /\ call' = [call EXCEPT !.rs = a.rs, !.recv = a.recv, !.outer = a.outer,
                             !.depth = a.depth, !.first = a.first]
  /\ UNCHANGED <<tree, node, old, headings, splices, stamp>>

\* The running call returns to its caller.
ReturnStep ==
  /\ call.status = "running"
  /\ \E a \in {Activation(call)} :
     /\ ~a.recurse
     /\ call' = [op |-> call.op, status |-> "ok", t |-> call.t, ret |-> a.ret,
                 depth |-> call.depth]
  /\ UNCHANGED <<tree, node, old, headings, splices, stamp>>

NextSteps ==
  \/ \E t \in UntilTargets : BeginUntil("ShiftUntil", t)
  \/ \E t \in UntilTargets : BeginUntil("ShiftUntilAfter", t)
  \/ RecurseStep
  \/ ReturnStep

\* A call that has begun keeps running until it returns.
SpecSteps ==
  InitStamp(UntilStamps) /\ [][NextSteps]_vars /\ WF_vars(RecurseStep \/ ReturnStep)

\* The number of occurrences of the stamp that start at or before t.
RECURSIVE Intervals(_, _)
Intervals(rs, t) == IF rs.Start > t THEN 0 ELSE 1 + Intervals(Shiftn(rs, 1), t)

\* The recursion is finite: the calls a call makes on itself are never nested
\* deeper than the number of occurrences of the stamp up to the target, and a
\* running call is never cut off at MaxDepth before it returns.
C20_Terminates ==
  (call.status \in {"running", "ok"} /\ call.op \in {"ShiftUntil", "ShiftUntilAfter"}) =>
    /\ call.depth <= Intervals(stamp, call.t)
    /\ call.status = "running" => call.depth < MaxDepth

\* The distance between the start of rs and t.
Dist(rs, t) == IF rs.Start > t THEN rs.Start - t ELSE t - rs.Start

\* C20: for every unit, every amount >= 1 and every target the stamp reaches,
\* ShiftUntil and ShiftUntilAfter terminate: each call they make on
\* themselves is made on a stamp strictly closer to the target than the
\* receiver, and the depth of the recursion is at most the number of
\* intervals between the stamp and the target.
C20_Claim ==
  /\ []C20_Terminates
  /\ [][RecurseStep => Dist(call'.rs, call.t) < Dist(call.rs, call.t)]_vars
\* --------------------------------------------- the receiver of a shift
\* Stamps of every form, the date-only ones whose Start keeps a clock
\* included, of every unit and kind, that a shift moves once Shiftn has
\* written to them.
ReceiverStamps ==
  {rs \in {StampOf(start, form, repeat, DefaultRepeatConfig) :
             start \in FewStarts, form \in {"point", "range", "date", "dated"},
             repeat \in Repeats({"+", "++", ".+"}, {"h", "d", "w", "m", "y"})} :
     Advances(ShiftnReceiver(rs))}

ReceiverTargets == Targets(stamp, 1, 2, {0, 1})

NextReceiver ==
  \/ \E i \in 0..MaxShifts : ShiftnCall(i)
  \/ \E t \in ReceiverTargets : ShiftCall(t, t)
  \/ \E t \in ReceiverTargets : ShiftUntilCall(t)
  \/ \E t \in ReceiverTargets : ShiftUntilAfterCall(t)

SpecReceiver == InitStamp(ReceiverStamps) /\ [][NextReceiver]_vars

\* C21: Shift, Shiftn, ShiftUntil and ShiftUntilAfter never modify the stamp
\* they are called on: for every unit, and for date-only as well as timed
\* stamps, every field of the receiver is the same after the call as before.
C21_Claim ==
  [][call'.op \in {"Shift", "Shiftn", "ShiftUntil", "ShiftUntilAfter"} => stamp' = stamp]_vars

\* ---------------------------------------------------------------- InWindow
\* Window bounds lie up to MaxWindow hours before and after the start.
MaxWindow == 3

\* ts.InWindow(start, end) of Timestamp: After and Before are strict.
TimestampInWindow(ts, start, end) ==
  LET startsWithinWindow == ts.Start > start /\ ts.Start < end
      endsWithinWindow == ts.End < end /\ ts.End > start
  IN startsWithinWindow \/ endsWithinWindow

\* rs.InWindow(start, end) of RepeatStamp, which hides the method of the
\* Timestamp it embeds.
RepeatStampInWindow(rs, start, end) == FALSE

\* Points and ranges of every unit.
WindowStamps ==
  {StampOf(start, form, repeat, DefaultRepeatConfig) :
     start \in FewStarts, form \in {"point", "range"},
     repeat \in Repeats({"+"}, {"h", "d", "w", "m", "y"})}

\* The window bounds around the stamp.
WindowMarks == {stamp.Start + d : d \in (-MaxWindow)..MaxWindow}

\* stamp.Timestamp.InWindow(start, end).
TimestampInWindowCall(start, end) ==
  /\ Fresh
  /\ call' = [op |-> "InWindow", on |-> "Timestamp", status |-> "ok", start |-> start,
              end |-> end, ret |-> TimestampInWindow(stamp, start, end)]
  /\ UNCHANGED <<tree, node, old, headings, splices, stamp>>

\* stamp.InWindow(start, end).
RepeatStampInWindowCall(start, end) ==
  /\ Fresh
  /\ call' = [op |-> "InWindow", on |-> "RepeatStamp", status |-> "ok", start |-> start,
              end |-> end, ret |-> RepeatStampInWindow(stamp, start, end)]
  /\ UNCHANGED <<tree, node, old, headings, splices, stamp>>

NextWindow ==
  \/ \E start \in WindowMarks, end \in WindowMarks :
        start < end /\ TimestampInWindowCall(start, end)
  \/ \E start \in WindowMarks, end \in WindowMarks :
        start < end /\ RepeatStampInWindowCall(start, end)

SpecWindow == InitStamp(WindowStamps) /\ [][NextWindow]_vars

\* C22: InWindow(start, end) on a Timestamp and on a RepeatStamp is true
\* exactly when the start or the end instant x of the stamp lies in
\* [start, end): start <= x < end.
C22_Claim ==
  call.op = "InWindow" =>
    call.ret = (\E x \in {stamp.Start, stamp.End} : call.start <= x /\ x < call.end)

\* ---------------------------------------------------------------- Duration
\* End dates lie up to MaxSpan days before and after the start date.
MaxSpan == 2

\* The largest time.Duration (2^63 - 1 nanoseconds), in whole hours.
MaxDuration == 2562047

\* u.Sub(t): the difference, saturated at the largest and smallest Duration.
Sub(u, t) ==
  IF u - t > MaxDuration THEN MaxDuration
  ELSE IF u - t < -MaxDuration THEN -MaxDuration
  ELSE u - t

\* NewTimestamp(start, WithEnd(end)): a Timestamp without a Repeat.
NewTimestamp(start, end) ==
  [Start |-> start, End |-> end, DateOnly |-> FALSE, IsRange |-> end # ZeroTime]

\* NewTimestampRange(start, end); a nil end is NilStamp.
NewTimestampRange(start, end) == [StartDate |-> start, EndDate |-> end]

\* ts.Duration() of Timestamp: the duration counts hours here, nanoseconds in
\* the code.
TimestampDuration(ts) ==
  IF ~ts.IsRange THEN [duration |-> 0, ok |-> FALSE, err |-> "nil"]
  ELSE LET duration == Sub(ts.End, ts.Start) IN
       IF ts.Start > ts.End
         THEN [duration |-> duration, ok |-> FALSE, err |-> "StartTimeAfterEndTimeError"]
         ELSE [duration |-> duration, ok |-> TRUE, err |-> "nil"]

\* tr.Duration() of TimestampRange: the duration counts hours here, seconds
\* in the code.  Without an EndDate the read of tr.EndDate.End panics.
TimestampRangeDuration(tr) ==
  IF tr.StartDate.IsRange THEN TimestampDuration(tr.StartDate)
  ELSE IF tr.EndDate = NilStamp THEN Panicked
  ELSE
    LET start == tr.StartDate.Start
        end == tr.EndDate.End
        duration == Sub(end, start)
    IN IF start > end
         THEN [duration |-> duration, ok |-> FALSE, err |-> "StartTimeAfterEndTimeError"]
         ELSE [duration |-> duration, ok |-> TRUE, err |-> "nil"]

\* Timestamps at 08:00 that are points or time ranges of two hours.
TimestampsAt(starts) ==
  {NewTimestamp(start, end) : start \in starts, end \in {ZeroTime}} \cup
  {NewTimestamp(start, start + 2) : start \in starts}

\* The ranges a caller holds: the end date is absent, or lies whole days
\* before or after the start date, or on it.
TimestampRanges ==
  UNION {{NewTimestampRange(sd, ed) :
            ed \in {NilStamp} \cup TimestampsAt({sd.Start + 24 * d : d \in (-MaxSpan)..MaxSpan})} :
         sd \in TimestampsAt(FewStarts)}

\* The state after NewTimestampRange: the caller holds a range.
InitRange ==
  /\ tree = NewMetaNodeTree.tree
  /\ node = NewMetaNodeTree.node
  /\ old = [tree |-> NewMetaNodeTree.tree, node |-> NewMetaNodeTree.node]
  /\ call = [op |-> "NewTimestampRange", status |-> "ok"]
  /\ headings = << >>
  /\ splices = 0
  /\ stamp \in TimestampRanges

\* stamp.Duration(), stamp a TimestampRange.
TimestampRangeDurationCall ==
  /\ call.op = "NewTimestampRange"
  /\ \E ret \in {TimestampRangeDuration(stamp)} :
     call' = IF ret = Panicked THEN [op |-> "TimestampRange.Duration", status |-> "panic"]
             ELSE [op |-> "TimestampRange.Duration", status |-> "ok",
                   duration |-> ret.duration, ok |-> ret.ok, err |-> ret.err]
  /\ UNCHANGED <<tree, node, old, headings, splices, stamp>>

\* stamp.StartDate.Duration() and stamp.EndDate.Duration().
TimestampDurationCall(which) ==
  /\ call.op = "NewTimestampRange"
  /\ stamp[which] # NilStamp
  /\ \E ret \in {TimestampDuration(stamp[which])} :
     call' = [op |-> "Timestamp.Duration", status |-> "ok", which |-> which,
              duration |-> ret.duration, ok |-> ret.ok, err |-> ret.err]
  /\ UNCHANGED <<tree, node, old, headings, splices, stamp>>

NextDuration ==
  \/ TimestampRangeDurationCall
  \/ \E which \in {"StartDate", "EndDate"} : TimestampDurationCall(which)

SpecDuration == InitRange /\ [][NextDuration]_vars

\* The end date of the range the caller holds lies before its start date.
EndBeforeStart ==
  /\ stamp.EndDate # NilStamp
  /\ stamp.EndDate.Start < stamp.StartDate.Start
  /\ stamp.EndDate.End < stamp.StartDate.Start

\* C23: for every TimestampRange whose end date lies before its start date,
\* whether or not the start timestamp carries a time range, Duration returns
\* a negative duration, the flag false and a start-after-end error, without
\* a panic; and the flag is true only when there is no error and the start
\* is not after the end.
C23_Claim ==
  call.op = "TimestampRange.Duration" =>
    /\ EndBeforeStart =>
          /\ call.status = "ok"
          /\ call.duration < 0
          /\ ~call.ok
          /\ call.err = "StartTimeAfterEndTimeError"
    /\ (call.status = "ok" /\ call.ok) =>
          /\ call.err = "nil"
          /\ stamp.EndDate # NilStamp => stamp.StartDate.Start <= stamp.EndDate.Start

\* ------------------------------------------------- value restrictions
\* A restriction lists up to MaxValues allowed values.
MaxValues == 3

\* A string is the sequence of its characters.
AllSuffix == <<"_", "A", "l", "l">>

\* p.Key[len(p.Key)-4:] panics when the key has fewer than four characters.
KeyTooShort(p) == Len(p.Key) < 4

\* p.IsValueRestriction(), for keys of four characters and more.
IsValueRestriction(p) == SubSeq(p.Key, Len(p.Key) - 3, Len(p.Key)) = AllSuffix

\* The loop of RestrictionValues over the characters value[i..]: brktOpen and
\* val are the loop's variables and out is the slice built so far.
RECURSIVE scanValue(_, _, _, _, _)
scanValue(value, i, brktOpen, val, out) ==
  IF i > Len(value) THEN out
  ELSE IF value[i] = "\"" THEN scanValue(value, i + 1, ~brktOpen, val, out)
  ELSE IF value[i] = " " /\ ~brktOpen THEN scanValue(value, i + 1, brktOpen, << >>, Append(out, val))
  ELSE scanValue(value, i + 1, brktOpen, Append(val, value[i]), out)

\* p.RestrictionValues(), for keys of four characters and more.
RestrictionValues(p) ==
  IF ~IsValueRestriction(p) THEN << >> ELSE scanValue(p.Value, 1, FALSE, << >>, << >>)

\* NewInvalidPropertyValueError(p, r).
NewInvalidPropertyValueError(p, r) ==
  IF KeyTooShort(r) THEN Panicked
  ELSE [err |-> "InvalidPropertyValueError", Property |-> p.Key, PropertyValue |-> p.Value,
        Restrictor |-> r.Key, RestrictorValues |-> RestrictionValues(r)]

\* p.Validate(prop): the error it returns, err "nil" for none.
Validate(p, prop) ==
  IF KeyTooShort(p) THEN Panicked
  ELSE IF ~IsValueRestriction(p)
    THEN [err |-> "NotValueRestrictionPropertyError", Property |-> p.Key]
  ELSE IF \E k \in 1..Len(RestrictionValues(p)) : prop.Value = RestrictionValues(p)[k]
    THEN [err |-> "nil"]
  ELSE NewInvalidPropertyValueError(p, prop)

\* Keys: a restriction and the key it restricts, and a key of two characters.
RestrictionKeyAll == <<"C", "o", "l", "_", "A", "l", "l">>

PlainKey == <<"C", "o", "l", "o", "r">>

ShortKey == <<"I", "D">>

\* What a caller of Validate holds: a property p whose value lists the
\* allowed values, and a property prop to validate.  The allowed values are
\* up to MaxValues of three words, one of which holds a blank; in the value
\* list they are separated by blanks, and a word with a blank is in quotes.
Restrictions ==
  LET Words == {<<"r">>, <<"g">>, <<"l", " ", "b">>}
      Quoted(w) == IF \E c \in 1..Len(w) : w[c] = " " THEN <<"\"">> \o w \o <<"\"">> ELSE w
      RECURSIVE ValueList(_)
      ValueList(ws) ==
        IF ws = << >> THEN << >>
        ELSE IF Len(ws) = 1 THEN Quoted(ws[1])
        ELSE Quoted(ws[1]) \o <<" ">> \o ValueList(Tail(ws))
      AllowedLists == UNION {[1..n -> Words] : n \in 0..MaxValues}
  IN
  {[p |-> Property(key, ValueList(allowed)), allowed |-> allowed, prop |-> Property(k, v)] :
     key \in {RestrictionKeyAll, PlainKey}, allowed \in AllowedLists,
     k \in {PlainKey, ShortKey}, v \in Words \cup {<<"p">>}}

InitRestriction ==
  /\ tree = NewMetaNodeTree.tree
  /\ node = NewMetaNodeTree.node
  /\ old = [tree |-> NewMetaNodeTree.tree, node |-> NewMetaNodeTree.node]
  /\ call = [op |-> "Property", status |-> "ok"]
  /\ headings = << >>
  /\ splices = 0
  /\ stamp \in Restrictions

\* stamp.p.RestrictionValues() and stamp.prop.RestrictionValues().
RestrictionValuesCall(which) ==
  /\ call.op = "Property"
  /\ call' = IF KeyTooShort(stamp[which])
               THEN [op |-> "RestrictionValues", status |-> "panic", which |-> which]
               ELSE [op |-> "RestrictionValues", status |-> "ok", which |-> which,
                     ret |-> RestrictionValues(stamp[which])]
  /\ UNCHANGED <<tree, node, old, headings, splices, stamp>>

\* stamp.p.Validate(stamp.prop).
ValidateCall ==
  /\ call.op = "Property"
  /\ \E ret \in {Validate(stamp.p, stamp.prop)} :
       call' = [op |-> "Validate", status |-> StatusOf(ret), ret |-> ret]
  /\ UNCHANGED <<tree, node, old, headings, splices, stamp>>

NextRestriction ==
  \/ \E which \in {"p", "prop"} : RestrictionValuesCall(which)
  \/ ValidateCall

SpecRestriction == InitRestriction /\ [][NextRestriction]_vars

\* C24: RestrictionValues of a property whose key ends in _All returns every
\* value of its value list, in order, the last one included.
C24_Claim ==
  (call.op = "RestrictionValues" /\ call.which = "p" /\ stamp.p.Key = RestrictionKeyAll) =>
    call.status = "ok" /\ call.ret = stamp.allowed

\* C25: Validate returns nil exactly when the value of the validated
\* property is one of the allowed values; otherwise it returns an
\* InvalidPropertyValueError that names the validated property (key and value)
\* and the restriction key with its non-empty list of allowed values.
C25_Claim ==
  (call.op = "Validate" /\ stamp.p.Key = RestrictionKeyAll /\ stamp.allowed # << >>) =>
    /\ call.status = "ok"
    /\ IF \E k \in 1..Len(stamp.allowed) : stamp.prop.Value = stamp.allowed[k]
         THEN call.ret.err = "nil"
         ELSE /\ call.ret.err = "InvalidPropertyValueError"
              /\ call.ret.Property = stamp.prop.Key
              /\ call.ret.PropertyValue = stamp.prop.Value
              /\ call.ret.Restrictor = stamp.p.Key
              /\ call.ret.RestrictorValues = stamp.allowed

\* -------------------------------------------------------- todo settings
\* A caller registers up to MaxSequences todo sequences.
MaxSequences == 2

TODO_SEQUENCE_UNKNOWN == "unknown"

TODO_SEQUENCE_TYPE == "type"

TODO_SEQUENCE_STATE == "state"

TODO_KEYWORD_KIND_UNKNOWN == ""

TODO_KEYWORD_KIND_PROCESS == "process"

TODO_KEYWORD_KIND_DONE == "done"

\* A FastAccessMap is a function from its fast-access keys to keywords.
NoMap == << >>

TodoSequence(process, done, map, kind) ==
  [ProcessKeywords |-> process, DoneKeywords |-> done, FastAccessMap |-> map, Kind |-> kind]

\* &TodoSettings{}: the two maps of the struct are never written.
EmptyTodoSettings == [TypeSequences |-> << >>, StateSequences |-> << >>, Sequences |-> << >>]

\* ts.GetKeywordKind(k).
GetKeywordKind(ts, k) ==
  IF k \in Range(ts.ProcessKeywords) THEN TODO_KEYWORD_KIND_PROCESS
  ELSE IF k \in Range(ts.DoneKeywords) THEN TODO_KEYWORD_KIND_DONE
  ELSE TODO_KEYWORD_KIND_UNKNOWN

\* ts.GetFastAccessKey(k): the maps of the model hold one key at most.
GetFastAccessKey(ts, k) ==
  IF \E key \in DOMAIN ts.FastAccessMap : ts.FastAccessMap[key] = k
    THEN CHOOSE key \in DOMAIN ts.FastAccessMap : ts.FastAccessMap[key] = k
    ELSE ""

keywords(ts) == ts.ProcessKeywords \o ts.DoneKeywords

\* fMapIntersects(left, right): (found, left's keyword of a key of both).
fMapIntersects(left, right) ==
  IF \E k \in DOMAIN right : k \in DOMAIN left
    THEN [ok |-> TRUE, v |-> left[CHOOSE k \in DOMAIN right : k \in DOMAIN left]]
    ELSE [ok |-> FALSE, v |-> ""]

\* fExists(q, s): (false, q) when s holds the keyword q, (true, "") otherwise.
fExists(q, s) ==
  IF GetKeywordKind(s, q) # TODO_KEYWORD_KIND_UNKNOWN
    THEN [ok |-> FALSE, collision |-> q]
    ELSE [ok |-> TRUE, collision |-> ""]

\* fIntersects(left, right), from the i-th keyword of left on: (true, q) at
\* the first keyword q of left that right holds.
RECURSIVE fIntersectsFrom(_, _, _)
fIntersectsFrom(left, right, i) ==
  IF i > Len(keywords(left)) THEN [ok |-> FALSE, collision |-> ""]
  ELSE IF ~fExists(keywords(left)[i], right).ok
    THEN [ok |-> TRUE, collision |-> fExists(keywords(left)[i], right).collision]
  ELSE fIntersectsFrom(left, right, i + 1)

fIntersects(left, right) == fIntersectsFrom(left, right, 1)

\* fIntersectsAny(left, right), from the i-th sequence of right on: it
\* returns at the first sequence for which fIntersects reports false.
RECURSIVE fIntersectsAnyFrom(_, _, _)
fIntersectsAnyFrom(left, right, i) ==
  IF i > Len(right) THEN [ok |-> FALSE, collision |-> ""]
  ELSE IF ~fIntersects(left, right[i]).ok
    THEN [ok |-> TRUE, collision |-> fIntersects(left, right[i]).collision]
  ELSE fIntersectsAnyFrom(left, right, i + 1)

fIntersectsAny(left, right) == fIntersectsAnyFrom(left, right, 1)

\* The first registered sequence (from the i-th on) that shares a
\* fast-access key with seq, 0 for none.
RECURSIVE fMapCollision(_, _, _)
fMapCollision(ts, seq, i) ==
  IF i > Len(ts.Sequences) THEN 0
  ELSE IF fMapIntersects(ts.Sequences[i].FastAccessMap, seq.FastAccessMap).ok THEN i
  ELSE fMapCollision(ts, seq, i + 1)

\* ts.fAdd(seq): the settings and the error it returns.
fAdd(ts, seq) ==
  IF seq.Kind = TODO_SEQUENCE_UNKNOWN
    THEN [ret |-> NilStamp, err |-> "TodoSequenceKindInvalidError"]
  ELSE IF fMapCollision(ts, seq, 1) # 0
    THEN [ret |-> NilStamp, err |-> "TodoFastAccessKeyCollisionError"]
  ELSE IF fIntersectsAny(seq, ts.Sequences).ok
    THEN [ret |-> NilStamp, err |-> "TodoSequenceKeyCollisionError",
          Key |-> fIntersectsAny(seq, ts.Sequences).collision]
  ELSE IF seq.Kind = TODO_SEQUENCE_STATE
    THEN [ret |-> [TypeSequences |-> << >>,
                   StateSequences |-> Append(ts.StateSequences, seq),
                   Sequences |-> Append(ts.Sequences, seq)],
          err |-> "nil"]
  ELSE [ret |-> [TypeSequences |-> Append(ts.TypeSequences, seq),
                 StateSequences |-> << >>,
                 Sequences |-> Append(ts.Sequences, seq)],
        err |-> "nil"]

\* ts.Add(seq): what it returns; the receiver is left as it was, for
\* `ts = nts` assigns the method's own copy of the pointer.
Add(ts, seq) == fAdd(ts, seq)

\* New(): the Document, of which the model keeps the BufferSettings.  The
\* result of todoSettings.Add is dropped.
New ==
  LET todoSettings == EmptyTodoSettings
      added == Add(todoSettings, TodoSequence(<<"TODO">>, <<"DONE">>, NoMap, TODO_SEQUENCE_STATE))
  IN  [BufferSettings |-> [TodoSettings |-> todoSettings]]

Keywords == {"TODO", "DONE", "WAIT"}

\* The sequences a caller adds: one or two keywords of either kind, two
\* with the fast-access key t, and one of no known kind.
TodoSequences ==
  {TodoSequence(<<p>>, done, NoMap, kind) :
     p \in Keywords, done \in {<< >>} \cup {<<d>> : d \in Keywords},
     kind \in {TODO_SEQUENCE_STATE, TODO_SEQUENCE_TYPE}}
  \cup {TodoSequence(<<p>>, << >>, [k \in {"t"} |-> p], TODO_SEQUENCE_STATE) : p \in {"TODO", "WAIT"}}
  \cup {TodoSequence(<<"WAIT">>, << >>, NoMap, TODO_SEQUENCE_UNKNOWN)}

InitTodo ==
  /\ tree = NewMetaNodeTree.tree
  /\ node = NewMetaNodeTree.node
  /\ old = [tree |-> NewMetaNodeTree.tree, node |-> NewMetaNodeTree.node]
  /\ call = [op |-> "New", status |-> "ok"]
  /\ headings = << >>
  /\ splices = 0
  /\ stamp = New.BufferSettings.TodoSettings

\* settings, err = stamp.Add(seq): the caller goes on with the settings
\* Add returned when it returned no error.
AddCall(seq) ==
  /\ Len(stamp.Sequences) < MaxSequences
  /\ \E r \in {Add(stamp, seq)} :
       /\ call' = [op |-> "Add", status |-> "ok", ts |-> stamp, seq |-> seq,
                   ret |-> r.ret, err |-> r.err]
       /\ stamp' = IF r.err = "nil" THEN r.ret ELSE stamp
  /\ UNCHANGED <<tree, node, old, headings, splices>>

NextTodo == \E seq \in TodoSequences : AddCall(seq)

SpecTodo == InitTodo /\ [][NextTodo]_vars

\* The sequences left and right share a keyword.
SharesKeyword(left, right) == Range(keywords(left)) \cap Range(keywords(right)) # {}

\* The sequences left and right share a fast-access key.
SharesAccessKey(left, right) == DOMAIN left.FastAccessMap \cap DOMAIN right.FastAccessMap # {}

\* C26: Add(seq), for a sequence of a known kind that shares no fast-access
\* key with a registered sequence, returns a keyword-collision error exactly
\* when seq shares a keyword with a registered sequence; a sequence whose
\* keywords are disjoint from every registered one is accepted, and the
\* returned settings hold it after all the sequences registered before.
C26_Claim ==
  (/\ call.op = "Add"
   /\ call.seq.Kind # TODO_SEQUENCE_UNKNOWN
   /\ \A i \in 1..Len(call.ts.Sequences) : ~SharesAccessKey(call.ts.Sequences[i], call.seq)) =>
    IF \E i \in 1..Len(call.ts.Sequences) : SharesKeyword(call.seq, call.ts.Sequences[i])
      THEN call.err = "TodoSequenceKeyCollisionError"
      ELSE call.err = "nil" /\ call.ret.Sequences = Append(call.ts.Sequences, call.seq)

\* C30: the document New() returns has the default todo sequence
\* registered: its TodoSettings hold a sequence with the process keyword
\* TODO and the done keyword DONE.
C30_Claim ==
  call.op = "New" =>
    \E i \in 1..Len(stamp.Sequences) :
      /\ "TODO" \in Range(stamp.Sequences[i].ProcessKeywords)
      /\ "DONE" \in Range(stamp.Sequences[i].DoneKeywords)

\* ------------------------------------------------ links and nodes of the tree
\* C27: after any sequence of AddHeading and InsertSubtree calls that
\* return normally, every child c listed by a position p of the tree has p
\* itself as its Parent.
C27_Claim ==
  Running =>
    \A p \in Reach : \A i \in 1..Len(tree[p].Subtree) : tree[tree[p].Subtree[i]].Parent = p

\* The number of positions of ps that hold the node n.
Count(tr, ps, n) == Cardinality({i \in 1..Len(ps) : tr[ps[i]].Node = n})

\* C28: after anchor.InsertSubtree(t) returns normally, the nodes below and
\* including the anchor are the nodes that were there before the call and
\* the nodes of t, each of them once.
C28_Claim ==
  (call.op = "InsertSubtree" /\ call.status = "ok") =>
    LET after == Positions(tree, call.anchor)
        before == Positions(old.tree, call.anchor) \o Positions(old.tree, call.t)
    IN \A n \in 1..Len(node) :
         Count(tree, after, n) = IF Count(old.tree, before, n) > 0 THEN 1 ELSE 0

\* ------------------------------------------------ progress of month shifts
\* C29: under every RepeatConfig that does not set both ShiftByDays and
\* FixedDate, the one with no flag included, Shiftn(n) with n >= 1 of a
\* monthly stamp returns a stamp whose Start is later than the original one.
C29_Claim ==
  (/\ Called("Shiftn", {"m"}) /\ call.i >= 1
   /\ ~(stamp.RepeatConfig.ShiftByDays /\ stamp.RepeatConfig.FixedDate)) =>
    call.status = "ok" /\ call.ret.Start > stamp.Start
====
